---- MODULE Spec2Model ----
(***************************************************************************)
(* Model of convex-schema-mermaid (src/src/index.ts, lines 1-277):         *)
(* schemaToMermaid turns a Convex schema into the text of a Mermaid        *)
(* flowchart.                                                              *)
(*                                                                         *)
(* A JavaScript string is a TLA+ string (a sequence of characters): join,   *)
(* split, startsWith and repeat are computed on its characters as the code *)
(* computes them.  An object (Record<string, V>) is modelled by the        *)
(* sequence Object.entries gives for it; a schema is the sequence of its   *)
(* [tableName, validator] entries.                                         *)
(***************************************************************************)
EXTENDS Integers, Sequences, FiniteSets, TLC

VARIABLES
    pc,             \* position of the caller / of schemaToMermaid
    schema,         \* the argument of the current invocation
    subgraphs,      \* const subgraphs (index.ts:202)
    links,          \* const links (index.ts:222)
    lines,          \* const lines (index.ts:259)
    pos,            \* position of the for-of loop in lines (index.ts:262)
    indents,        \* let indents (index.ts:260)
    indentedLines,  \* const indentedLines (index.ts:261)
    result,         \* the string schemaToMermaid returned
    error,          \* the message of the Error it threw
    calls,          \* invocations made by the caller that calls repeatedly
    outcomes        \* what that caller got back from its earlier invocations

vars == <<pc, schema, subgraphs, links, lines, pos, indents, indentedLines,
          result, error, calls, outcomes>>

----------------------------------------------------------------------------
(* The string constants of the source *)

NL == "\n"
SP == " "
DOT == "."
QM == "?"

S_subgraph == "subgraph"
S_flowchart == "flowchart"
S_flowchartLR == "flowchart LR"
S_end == "end"
S_arrow == "-->"
S_unionDot == "union."
S_arrayDot0 == "array.0"

K_object == "object"
K_union == "union"
K_array == "array"
K_literal == "literal"
K_id == "id"
K_string == "string"
K_record == "record"

E_prefix == "Only object and union table definition types are supported, but "
E_hasType == " has type "
E_range == "Invalid count value: "

----------------------------------------------------------------------------
(* JavaScript string and array primitives *)

\* Array.prototype.join
RECURSIVE join(_, _)
join(strs, sep) ==
    IF Len(strs) = 0 THEN ""
    ELSE IF Len(strs) = 1 THEN strs[1]
    ELSE strs[1] \o sep \o join(Tail(strs), sep)

\* the character of str at position i (1-based)
charAt(str, i) == SubSeq(str, i, i)

\* String.prototype.split with a one-character separator: the pieces of
\* str between consecutive separators, the ends of str included
split(str, sep) ==
    LET seps == {i \in 1..Len(str) : charAt(str, i) = sep}
        n == Cardinality(seps)
        sepAt(k) ==
            IF k = 0 THEN 0
            ELSE IF k = n + 1 THEN Len(str) + 1
            ELSE CHOOSE i \in seps : Cardinality({j \in seps : j < i}) = k - 1
    IN  [k \in 1..(n + 1) |-> SubSeq(str, sepAt(k - 1) + 1, sepAt(k) - 1)]

\* String.prototype.startsWith
startsWith(str, prefix) ==
    /\ Len(str) >= Len(prefix)
    /\ SubSeq(str, 1, Len(prefix)) = prefix

\* String.prototype.repeat for a count >= 0 (a negative count throws)
RECURSIVE repeat(_, _)
repeat(str, n) == IF n <= 0 THEN "" ELSE str \o repeat(str, n - 1)

\* Array.prototype.at(-1)
atLast(strs) == strs[Len(strs)]

\* Array.prototype.flatMap, given the mapped arrays
RECURSIVE flat(_)
flat(seqs) == IF Len(seqs) = 0 THEN <<>> ELSE seqs[1] \o flat(Tail(seqs))

\* the template literal `${i}` of an integer
digitChar(d) == charAt("0123456789", d + 1)

RECURSIVE numberToString(_)
numberToString(n) ==
    IF n < 0 THEN "-" \o numberToString(0 - n)
    ELSE IF n < 10 THEN digitChar(n)
    ELSE numberToString(n \div 10) \o digitChar(n % 10)

----------------------------------------------------------------------------
(* index.ts:5-48  names and leaf labels *)

\* fieldNameToSubgraphName gone wrong: the optional flag is ignored
fieldNameUnsuffixed(fieldName, optional) == fieldName

\* append a `?` to the field name if it is optional
fieldNameToSubgraphName(fieldName, optional) ==
    IF optional = "optional" THEN fieldName \o QM ELSE fieldName

fieldToNode(fieldName, fieldType) == fieldName \o ": " \o fieldType

\* literalToNode gone wrong: the value is not quoted
literalToNodeUnquoted(fieldName, value) ==
    fieldToNode(fieldName, K_literal) \o " " \o value

literalToNode(fieldName, value) ==
    fieldToNode(fieldName, K_literal) \o " '" \o value \o "'"

linkFieldToNode(fieldName, tableName) ==
    fieldToNode(fieldName, K_id) \o " '" \o tableName \o "'"

\* kinds whose node is a subgraph and is not wrapped with [] (index.ts:81-85)
isGroupKind(kind) == kind = K_object \/ kind = K_union \/ kind = K_array

\* unionToPretendObject gone wrong: the members are numbered from 1
unionToPretendObjectFromOne(unionMembers) ==
    [i \in 1..Len(unionMembers) |->
        [name |-> S_unionDot \o numberToString(i),
         validator |-> unionMembers[i]]]

\* Pretend a union is an object with fields named union.0, union.1, etc.
unionToPretendObject(unionMembers) ==
    [i \in 1..Len(unionMembers) |->
        [name |-> S_unionDot \o numberToString(i - 1),
         validator |-> unionMembers[i]]]

\* Pretend an array is an object with a field named array.0
arrayToPretendObject(arrayElement) ==
    <<[name |-> S_arrayDot0, validator |-> arrayElement]>>

----------------------------------------------------------------------------
(* index.ts:20-137  the subgraph pass *)

RECURSIVE objectToSubgraph(_, _)
RECURSIVE fieldValidatorToNode(_, _, _)
RECURSIVE unionToSubgraph(_, _)
RECURSIVE arrayToSubgraph(_, _)

\* converts a field validator to a node
fieldValidatorToNode(fieldName, fieldValidator, subgraphNames) ==
    CASE fieldValidator.kind = K_object ->
            objectToSubgraph(fieldValidator.fields,
                             Append(subgraphNames, fieldName))
      [] fieldValidator.kind = K_union ->
            unionToSubgraph(fieldValidator.members,
                            Append(subgraphNames, fieldName))
      [] fieldValidator.kind = K_array ->
            arrayToSubgraph(fieldValidator.element,
                            Append(subgraphNames, fieldName))
      [] fieldValidator.kind = K_literal ->
            literalToNode(fieldName, fieldValidator.value)
      [] fieldValidator.kind = K_id ->
            linkFieldToNode(fieldName, fieldValidator.tableName)
      [] OTHER -> fieldToNode(fieldName, fieldValidator.kind)

\* the callback of the map over Object.entries(object) (index.ts:71-90)
fieldNode(entry, ancestorNames) ==
    LET subgraphName ==
            fieldNameToSubgraphName(entry.name, entry.validator.isOptional)
        node == fieldValidatorToNode(subgraphName, entry.validator,
                                     ancestorNames)
    IN  IF isGroupKind(entry.validator.kind)
        THEN node
        ELSE join(ancestorNames, DOT) \o DOT \o subgraphName
                 \o "[" \o node \o "]"

\* subgraphHeader gone wrong: the label is the whole path
subgraphHeaderPathLabel(ancestorNames) ==
    S_subgraph \o SP \o join(ancestorNames, DOT)
        \o "[" \o join(ancestorNames, DOT) \o "]"

\* the first line of a subgraph (index.ts:94)
subgraphHeader(ancestorNames) ==
    S_subgraph \o SP \o join(ancestorNames, DOT)
        \o "[" \o atLast(ancestorNames) \o "]"

\* objectToSubgraph gone wrong: the end line comes before the fields
objectToSubgraphEndFirst(object, ancestorNames) ==
    LET fieldNodes ==
            join([i \in 1..Len(object) |-> fieldNode(object[i], ancestorNames)],
                 NL)
    IN  join(<<subgraphHeader(ancestorNames), S_end \o NL, fieldNodes>>, NL)

objectToSubgraph(object, ancestorNames) ==
    LET fieldNodes ==
            join([i \in 1..Len(object) |-> fieldNode(object[i], ancestorNames)],
                 NL)
    IN  join(<<subgraphHeader(ancestorNames), fieldNodes, S_end \o NL >>,
             NL)

unionToSubgraph(unionMembers, subgraphNames) ==
    objectToSubgraph(unionToPretendObject(unionMembers), subgraphNames)

arrayToSubgraph(arrayElement, subgraphNames) ==
    objectToSubgraph(arrayToPretendObject(arrayElement), subgraphNames)

----------------------------------------------------------------------------
(* index.ts:142-191  the link pass *)

RECURSIVE flattenObjectFields(_, _)
RECURSIVE flattenUnionMembers(_, _)
RECURSIVE flattenArrayElement(_, _)

\* the callback of the flatMap over Object.entries(object) (index.ts:157-178)
flattenField(entry, ancestorNames) ==
    LET validator == entry.validator
        name == fieldNameToSubgraphName(entry.name, validator.isOptional)
    IN  CASE validator.kind = K_object ->
                flattenObjectFields(validator.fields,
                                    Append(ancestorNames, name))
          [] validator.kind = K_union ->
                flattenUnionMembers(validator.members,
                                    Append(ancestorNames, name))
          [] validator.kind = K_array ->
                flattenArrayElement(validator.element,
                                    Append(ancestorNames, name))
          [] validator.kind = K_id ->
                <<[name |-> name, kind |-> validator.kind,
                   ancestorNames |-> ancestorNames,
                   linkedTableName |-> validator.tableName]>>
          [] OTHER ->
                <<[name |-> name, kind |-> validator.kind,
                   ancestorNames |-> ancestorNames]>>

\* flattenObjectFields gone wrong: the entries are visited last to first
flattenObjectFieldsBackwards(object, ancestorNames) ==
    flat([i \in 1..Len(object) |->
            flattenField(object[Len(object) + 1 - i], ancestorNames)])

\* Return a list of all fields nested in an object as nodes.
flattenObjectFields(object, ancestorNames) ==
    flat([i \in 1..Len(object) |-> flattenField(object[i], ancestorNames)])

flattenUnionMembers(unionMembers, ancestorNames) ==
    flattenObjectFields(unionToPretendObject(unionMembers), ancestorNames)

\* flattenArrayElement gone wrong: the link pass names the element array
flattenArrayElementAsArray(arrayElement, ancestorNames) ==
    flattenObjectFields(<<[name |-> "array", validator |-> arrayElement]>>,
                        ancestorNames)

flattenArrayElement(arrayElement, ancestorNames) ==
    flattenObjectFields(arrayToPretendObject(arrayElement), ancestorNames)

----------------------------------------------------------------------------
(* index.ts:199-249  schemaToMermaid, up to the call of applyIndentation *)

\* the table kinds the two switches accept (index.ts:206-218, 226-238)
isSupportedRoot(tableValidator) ==
    tableValidator.kind = K_object \/ tableValidator.kind = K_union

\* rootErrorMessage gone wrong: the message names neither table nor kind
\* (as in the earlier version of the file, index.ts:499-501)
rootErrorMessageBare(tableName, tableValidator) ==
    "Only object and union table definition types are supported"

\* the message of the Error thrown for a table (index.ts:214-217)
rootErrorMessage(tableName, tableValidator) ==
    E_prefix \o tableName \o E_hasType \o tableValidator.kind

\* the callback of the map over the tables (index.ts:203-219)
tableSubgraph(table) ==
    IF table.validator.kind = K_object
    THEN objectToSubgraph(table.validator.fields, <<table.tableName>>)
    ELSE unionToSubgraph(table.validator.members, <<table.tableName>>)

\* the callback of the flatMap over the tables (index.ts:223-239)
tableNodes(table) ==
    IF table.validator.kind = K_object
    THEN flattenObjectFields(table.validator.fields, <<table.tableName>>)
    ELSE flattenUnionMembers(table.validator.members, <<table.tableName>>)

\* the index of the first table whose root kind throws, 0 if none
firstUnsupported(tables) ==
    LET bad == {i \in 1..Len(tables) : ~isSupportedRoot(tables[i].validator)}
    IN  IF bad = {} THEN 0
        ELSE CHOOSE i \in bad : \A j \in bad : i <= j

\* .filter(({ kind: type }) => type === "id") (index.ts:240)
filterLinks(nodes) == SelectSeq(nodes, LAMBDA n : n.kind = K_id)

\* linkLine gone wrong: the arrow is written with spaces around it
linkLineSpaced(node) ==
    join(node.ancestorNames, DOT) \o DOT \o node.name
        \o " --> " \o node.linkedTableName

\* the edge of a link node (index.ts:243-244)
linkLine(node) ==
    join(node.ancestorNames, DOT) \o DOT \o node.name
        \o S_arrow \o node.linkedTableName

\* const subgraphs, for a schema whose tables are all supported
subgraphsOf(tables) ==
    join([i \in 1..Len(tables) |-> tableSubgraph(tables[i])], "")

\* const links
linksOf(tables) ==
    LET nodes == flat([i \in 1..Len(tables) |-> tableNodes(tables[i])])
        kept == filterLinks(nodes)
    IN  join([i \in 1..Len(kept) |-> linkLine(kept[i])], NL)

\* mermaidStrOf gone wrong: the links are put before the subgraphs
mermaidStrLinksFirst(subs, lnks) == join(<<S_flowchartLR, lnks, subs>>, NL)

\* the argument of applyIndentation (index.ts:248)
mermaidStrOf(subs, lnks) == join(<<S_flowchartLR, subs \o lnks>>, NL)

----------------------------------------------------------------------------
(* Validators (the v builders of convex/values) *)

required == "required"
optional == "optional"

vString(opt) == [kind |-> K_string, isOptional |-> opt]
vRecord(opt) == [kind |-> K_record, isOptional |-> opt]
vLiteral(value, opt) == [kind |-> K_literal, isOptional |-> opt, value |-> value]
vId(tableName, opt) ==
    [kind |-> K_id, isOptional |-> opt, tableName |-> tableName]
vObject(fields, opt) == [kind |-> K_object, isOptional |-> opt, fields |-> fields]
vUnion(members, opt) == [kind |-> K_union, isOptional |-> opt, members |-> members]
vArray(element, opt) == [kind |-> K_array, isOptional |-> opt, element |-> element]

field(name, validator) == [name |-> name, validator |-> validator]
defineTable(tableName, validator) ==
    [tableName |-> tableName, validator |-> validator]

----------------------------------------------------------------------------
(* The schemas compiled.  Field names are f, g, h, ... by position; a      *)
(* "clash" object declares f (optional) next to a field named f?.  Table    *)
(* names include one that begins with the word end.                         *)

MaxMembers == 2     \* fields of an object, members of a union
MaxDepth == 2       \* levels of groups wrapped around a seed
MaxTables == 2      \* tables of a schema with several tables

TableNames == {"a", "b", "end"}

Leaves ==
    {vString(required), vString(optional), vId("a", required),
     vId("b", optional), vLiteral("x", required), vRecord(required)}

\* all sequences over S of length at most n
seqsUpTo(S, n) == UNION {[1..k -> S] : k \in 0..n}

fieldNameAt(i) == charAt("fghkmnpq", i)

\* the object that declares the validators vs under the names f, g, ...
objectOf(vs) ==
    vObject([i \in 1..Len(vs) |-> field(fieldNameAt(i), vs[i])], required)

\* objects, unions and arrays whose children are leaves
FlatGroups ==
    {objectOf(vs) : vs \in seqsUpTo(Leaves, MaxMembers)}
    \cup {vUnion(vs, required) : vs \in seqsUpTo(Leaves, MaxMembers)}
    \cup {vArray(v, required) : v \in Leaves}
    \cup {vObject(<<field("f", w), field("f?", v)>>, required) :
             w \in {vString(optional), vId("a", optional)}, v \in Leaves}

\* the groups that get wrapped into deeper ones
Seeds ==
    {vObject(<<>>, required),
     objectOf(<<vId("a", required)>>),
     objectOf(<<vString(optional), vId("b", optional)>>),
     vUnion(<<vId("b", required), vLiteral("x", required)>>, required),
     vArray(vId("a", required), required)}

\* one more level of nesting around g: a group followed by a sibling
\* reference, an optional group, a union member, an array element
wrapsOf(g) ==
    {vObject(<<field("f", g), field("g", vId("b", required))>>, required),
     vObject(<<field("f", [g EXCEPT !.isOptional = optional])>>, required),
     vUnion(<<vString(required), g>>, required),
     vArray(g, required)}

RECURSIVE Nested(_)
Nested(d) ==
    IF d = 0 THEN Seeds ELSE UNION {wrapsOf(g) : g \in Nested(d - 1)}

\* the validators a table is defined with; those that are neither objects
\* nor unions are the unsupported roots
Roots ==
    FlatGroups \cup UNION {Nested(d) : d \in 1..MaxDepth}
        \cup {vString(required), vId("b", required)}

SmallRoots ==
    {vObject(<<>>, required),
     objectOf(<<vId("a", required)>>),
     vObject(<<field("f", objectOf(<<vId("b", optional)>>)),
               field("g", vId("end", required))>>, required),
     vUnion(<<vId("b", required)>>, required),
     vArray(vString(required), required)}

\* sequences of distinct table names
nameLists(n) ==
    {ns \in [1..n -> TableNames] : \A i, j \in 1..n : i # j => ns[i] # ns[j]}

Schemas ==
    {<<>>}
    \cup {<<defineTable(t, r)>> : t \in TableNames \ {"b"}, r \in Roots}
    \cup UNION {
           {[i \in 1..n |-> defineTable(ns[i], rs[i])] :
               ns \in nameLists(n), rs \in [1..n -> SmallRoots]} :
           n \in 2..MaxTables}

----------------------------------------------------------------------------
(* The state machine: a caller invokes schemaToMermaid on one schema at a  *)
(* time; applyIndentation's loop takes one step per line.                   *)

Init ==
    /\ pc = "idle"
    /\ schema = <<>>
    /\ subgraphs = ""
    /\ links = ""
    /\ lines = <<>>
    /\ pos = 0
    /\ indents = 0
    /\ indentedLines = <<>>
    /\ result = ""
    /\ error = ""
    /\ calls = 0
    /\ outcomes = {}

\* schemaToMermaid(s) is called
Call ==
    /\ pc = "idle"
    /\ \E s \in Schemas : schema' = s
    /\ pc' = "subgraphs"
    /\ UNCHANGED <<subgraphs, links, lines, pos, indents, indentedLines,
                   result, error, calls, outcomes>>

\* index.ts:202-220  const subgraphs = ... ; the map throws at the first
\* table whose root is neither an object nor a union
BuildSubgraphs ==
    /\ pc = "subgraphs"
    /\ LET bad == firstUnsupported(schema)
       IN  IF bad # 0
           THEN /\ pc' = "error"
                /\ error' = rootErrorMessage(schema[bad].tableName,
                                             schema[bad].validator)
                /\ UNCHANGED subgraphs
           ELSE /\ pc' = "links"
                /\ subgraphs' = subgraphsOf(schema)
                /\ UNCHANGED error
    /\ UNCHANGED <<schema, links, lines, pos, indents, indentedLines, result,
                   calls, outcomes>>

\* index.ts:222-246  const links = ...
BuildLinks ==
    /\ pc = "links"
    /\ links' = linksOf(schema)
    /\ pc' = "apply"
    /\ UNCHANGED <<schema, subgraphs, lines, pos, indents, indentedLines,
                   result, error, calls, outcomes>>

\* ApplyIndentation gone wrong: the counter is not set to 0 on entry, as if
\* it were declared once outside the function
ApplyIndentationKeepsIndents ==
    /\ pc = "apply"
    /\ lines' = split(mermaidStrOf(subgraphs, links), NL)
    /\ indentedLines' = <<>>
    /\ pos' = 1
    /\ pc' = "indent"
    /\ UNCHANGED <<schema, subgraphs, links, indents, result, error, calls,
                   outcomes>>

\* index.ts:248, 259-261  applyIndentation is entered
ApplyIndentation ==
    /\ pc = "apply"
    /\ lines' = split(mermaidStrOf(subgraphs, links), NL)
    /\ indents' = 0
    /\ indentedLines' = <<>>
    /\ pos' = 1
    /\ pc' = "indent"
    /\ UNCHANGED <<schema, subgraphs, links, result, error, calls, outcomes>>

\* skipsLine gone wrong: no line is dropped
skipsNoLine(line) == FALSE

\* the line is dropped (index.ts:263-265)
skipsLine(line) == Len(line) = 0

\* the line opens a level (index.ts:266)
opensLevel(line) == startsWith(line, S_flowchart) \/ startsWith(line, S_subgraph)

\* the line closes a level (index.ts:269)
closesLevel(line) == startsWith(line, S_end)

\* index.ts:262-275  one iteration of the loop over lines; " ".repeat of a
\* negative count throws a RangeError
IndentLine ==
    /\ pc = "indent"
    /\ pos <= Len(lines)
    /\ LET line == lines[pos]
       IN  IF skipsLine(line)
           THEN /\ pos' = pos + 1
                /\ UNCHANGED <<pc, indents, indentedLines, error>>
           ELSE IF opensLevel(line)
           THEN /\ indentedLines' =
                       Append(indentedLines, repeat(SP, indents) \o line)
                /\ indents' = indents + 2
                /\ pos' = pos + 1
                /\ UNCHANGED <<pc, error>>
           ELSE IF closesLevel(line)
           THEN IF indents - 2 < 0
                THEN /\ indents' = indents - 2
                     /\ pc' = "error"
                     /\ error' = E_range \o numberToString(indents - 2)
                     /\ UNCHANGED <<pos, indentedLines>>
                ELSE /\ indents' = indents - 2
                     /\ indentedLines' =
                            Append(indentedLines, repeat(SP, indents - 2) \o line)
                     /\ pos' = pos + 1
                     /\ UNCHANGED <<pc, error>>
           ELSE /\ indentedLines' =
                       Append(indentedLines, repeat(SP, indents) \o line)
                /\ pos' = pos + 1
                /\ UNCHANGED <<pc, indents, error>>
    /\ UNCHANGED <<schema, subgraphs, links, lines, result, calls, outcomes>>

\* index.ts:276, 248  the loop is over; the joined lines are returned
ReturnResult ==
    /\ pc = "indent"
    /\ pos > Len(lines)
    /\ result' = join(indentedLines, NL)
    /\ pc' = "done"
    /\ UNCHANGED <<schema, subgraphs, links, lines, pos, indents,
                   indentedLines, error, calls, outcomes>>

\* the caller has its string or its exception; nothing of the invocation
\* is kept (all of it is local to the call)
Finish ==
    /\ pc \in {"done", "error"}
    /\ pc' = "idle"
    /\ schema' = <<>>
    /\ subgraphs' = ""
    /\ links' = ""
    /\ lines' = <<>>
    /\ pos' = 0
    /\ indents' = 0
    /\ indentedLines' = <<>>
    /\ result' = ""
    /\ error' = ""
    /\ UNCHANGED <<calls, outcomes>>

Next ==
    \/ Call
    \/ BuildSubgraphs
    \/ BuildLinks
    \/ ApplyIndentation
    \/ IndentLine
    \/ ReturnResult
    \/ Finish

Spec == Init /\ [][Next]_vars

----------------------------------------------------------------------------
(* A caller that invokes schemaToMermaid several times in a row and keeps   *)
(* what each invocation gave.  What the previous invocation left in its     *)
(* locals is still there when the next one starts: the function has to set  *)
(* each of them before it reads it (index.ts:202, 222, 259-261).            *)

MaxCalls == 3       \* invocations in a row

\* schemas of different depth, one with an unsupported root, one whose
\* table name makes the indentation fail
RepeatSchemas ==
    {<<>>,
     <<defineTable("a", objectOf(<<vId("a", required)>>))>>,
     <<defineTable("a", vObject(<<field("f", objectOf(<<vId("b", optional)>>)),
                                 field("g", vId("end", required))>>, required))>>,
     <<defineTable("a", vUnion(<<vString(required)>>, required)),
       defineTable("b", vObject(<<>>, required))>>,
     <<defineTable("a", vArray(vString(required), required))>>,
     <<defineTable("end", objectOf(<<vString(required), vString(required)>>))>>}

\* what the caller has got from the invocation that just ended
outcome == [schema |-> schema, ended |-> pc, result |-> result, error |-> error]

\* schemaToMermaid(s) is called, the first time or right after an earlier
\* invocation has returned or thrown
CallRepeatedly ==
    /\ pc \in {"idle", "done", "error"}
    /\ calls < MaxCalls
    /\ \E s \in RepeatSchemas : schema' = s
    /\ calls' = calls + 1
    /\ outcomes' = IF pc = "idle" THEN outcomes ELSE outcomes \cup {outcome}
    /\ pc' = "subgraphs"
    /\ result' = ""
    /\ error' = ""
    /\ UNCHANGED <<subgraphs, links, lines, pos, indents, indentedLines>>

NextRepeat ==
    \/ CallRepeatedly
    \/ BuildSubgraphs
    \/ BuildLinks
    \/ ApplyIndentation
    \/ IndentLine
    \/ ReturnResult

SpecRepeat == Init /\ [][NextRepeat]_vars

----------------------------------------------------------------------------
(* Reading the output text: the lines of the returned string, taken apart  *)
(* by their form alone.                                                     *)

\* the number of leading spaces of a line
leadOf(line) ==
    LET other == {i \in 1..Len(line) : charAt(line, i) # SP}
    IN  IF other = {} THEN Len(line)
        ELSE (CHOOSE i \in other : \A j \in other : i <= j) - 1

\* the line without its leading spaces
bodyOf(line) == SubSeq(line, leadOf(line) + 1, Len(line))

\* the position of the first occurrence of the character ch in str, 0 if none
indexOfChar(str, ch) ==
    LET at == {i \in 1..Len(str) : charAt(str, i) = ch}
    IN  IF at = {} THEN 0 ELSE CHOOSE i \in at : \A j \in at : i <= j

\* the position of the first occurrence of sub in str, 0 if none
indexOfStr(str, sub) ==
    LET at == {i \in 1..(Len(str) - Len(sub) + 1) :
                  SubSeq(str, i, i + Len(sub) - 1) = sub}
    IN  IF at = {} THEN 0 ELSE CHOOSE i \in at : \A j \in at : i <= j

endsWith(str, suffix) ==
    /\ Len(str) >= Len(suffix)
    /\ SubSeq(str, Len(str) - Len(suffix) + 1, Len(str)) = suffix

isDeclLine(b) == b = "flowchart LR"
isOpenLine(b) == startsWith(b, "subgraph ") /\ endsWith(b, "]")
isEndLine(b) == b = "end"
isLeafLine(b) == ~isOpenLine(b) /\ endsWith(b, "]")
isEdgeLine(b) ==
    ~isDeclLine(b) /\ ~isEndLine(b) /\ ~endsWith(b, "]")
        /\ indexOfStr(b, "-->") # 0

\* the path identifier of a subgraph line or of a leaf line: what stands
\* before the first [
pathIdOf(b) ==
    IF isOpenLine(b) THEN SubSeq(b, Len("subgraph ") + 1, indexOfChar(b, "[") - 1)
    ELSE SubSeq(b, 1, indexOfChar(b, "[") - 1)

\* the label of a subgraph line or of a leaf line: what stands between the
\* first [ and the closing ]
labelOf(b) == SubSeq(b, indexOfChar(b, "[") + 1, Len(b) - 1)

\* the lines of the returned text, and their bodies
outLines == split(result, NL)
outBodies == [k \in 1..Len(outLines) |-> bodyOf(outLines[k])]

\* the nesting level of output line k by the subgraph and end lines before
\* it: 0 for a table's own subgraph line
levelAt(bodies, k) ==
    Cardinality({j \in 1..(k - 1) : isOpenLine(bodies[j])})
        - Cardinality({j \in 1..(k - 1) : isEndLine(bodies[j])})

\* the positions of the lines of bodies that satisfy test, in order
positionsOf(bodies, test(_)) ==
    LET at == {k \in 1..Len(bodies) : test(bodies[k])}
    IN  [n \in 1..Cardinality(at) |->
            CHOOSE k \in at : Cardinality({j \in at : j < k}) = n - 1]

\* the lines of bodies that satisfy test, in order
selectLines(bodies, test(_)) ==
    LET at == positionsOf(bodies, test)
    IN  [n \in 1..Len(at) |-> bodies[at[n]]]

----------------------------------------------------------------------------
(* Reading the schema: the nodes of a table's type tree in pre-order,      *)
(* depth first, children left to right.                                     *)

\* a node's kind is a group kind
isGroup(v) == v.kind \in {"object", "union", "array"}

\* the children of a group node as <<name, validator, declared>>: declared
\* fields keep their name; union members and the array element get the
\* synthetic names
childrenOf(v) ==
    IF v.kind = "object"
    THEN [i \in 1..Len(v.fields) |->
             [name |-> v.fields[i].name, validator |-> v.fields[i].validator,
              declared |-> TRUE]]
    ELSE IF v.kind = "union"
    THEN [i \in 1..Len(v.members) |->
             [name |-> "union." \o numberToString(i - 1),
              validator |-> v.members[i], declared |-> FALSE]]
    ELSE <<[name |-> "array.0", validator |-> v.element, declared |-> FALSE]>>

\* the segment a node contributes to paths and labels: its name, with a ?
\* when the node is marked optional (a union member or array element that
\* is itself marked optional is read the same way)
segmentOf(name, v) == IF v.isOptional = "optional" THEN name \o "?" ELSE name

\* The pre-order list of the nodes below (and including) the node v that
\* has the bare name `name`, the path `above` of its parent and the depth d.
RECURSIVE walk(_, _, _, _, _)
walk(name, v, above, d, declared) ==
    LET seg == IF d = 0 THEN name ELSE segmentOf(name, v)
        path == IF d = 0 THEN seg ELSE above \o "." \o seg
        self == [name |-> name, seg |-> seg, path |-> path, above |-> above,
                 depth |-> d, v |-> v, declared |-> declared]
    IN  IF isGroup(v)
        THEN LET ch == childrenOf(v)
             IN  <<self>> \o
                 flat([i \in 1..Len(ch) |->
                        walk(ch[i].name, ch[i].validator, path, d + 1,
                             ch[i].declared)])
        ELSE <<self>>

\* the nodes of one table, the root first
tableWalk(table) == walk(table.tableName, table.validator, "", 0, FALSE)

\* the nodes of all tables, tables in schema order
schemaWalk(tables) == flat([i \in 1..Len(tables) |-> tableWalk(tables[i])])

\* the Reference nodes of a schema, in walk order
referenceNodes(tables) == SelectSeq(schemaWalk(tables), LAMBDA n : n.v.kind = "id")

----------------------------------------------------------------------------
(* Properties of the returned text *)

\* the number of times s occurs in the sequence strs
countOf(strs, s) == Cardinality({i \in 1..Len(strs) : strs[i] = s})

rangeOf(strs) == {strs[i] : i \in 1..Len(strs)}

\* the edge lines of the output, in order
outEdges == selectLines(outBodies, isEdgeLine)

\* the edge line the Reference node n stands for
edgeOf(n) == n.path \o "-->" \o n.v.tableName

\* the edge lines the Reference nodes of the schema stand for, in walk order
expectedEdges ==
    LET refs == referenceNodes(schema)
    IN  [i \in 1..Len(refs) |-> edgeOf(refs[i])]

\* C1 (edge correspondence): in the returned text every Reference node at
\* path P with target T has its line P-->T, every edge line is the line of
\* a Reference node, and there are as many edge lines as Reference nodes,
\* equal edges counted as often as they occur.
C1_EdgeCorrespondence ==
    pc = "done" =>
        /\ Len(outEdges) = Len(referenceNodes(schema))
        /\ \A e \in rangeOf(outEdges) \cup rangeOf(expectedEdges) :
              countOf(outEdges, e) = countOf(expectedEdges, e)

\* a text was returned for a schema in which a table refers to itself and
\* two Reference nodes have the same source and target
C1_Witness ==
    /\ pc = "done"
    /\ \E e \in rangeOf(expectedEdges) : countOf(expectedEdges, e) >= 2
    /\ \E i \in 1..Len(schema) :
          \E j \in 1..Len(tableWalk(schema[i])) :
              LET n == tableWalk(schema[i])[j]
              IN  n.v.kind = "id" /\ n.v.tableName = schema[i].tableName

\* the subgraph lines and leaf lines of the output, in order
isNodeLine(b) == isOpenLine(b) \/ isLeafLine(b)
outNodeAt == positionsOf(outBodies, isNodeLine)

\* C2 (pre-order): the subgraph and leaf lines of the returned text are the
\* nodes of the schema in pre-order (tables in schema order, children in
\* declaration order, union members by position), one line per node, and
\* every node's line stands inside exactly the blocks of its ancestors: the
\* block of a nested group is closed before the line of its next sibling.
C2_PreOrder ==
    pc = "done" =>
        LET nodes == schemaWalk(schema)
        IN  /\ Len(outNodeAt) = Len(nodes)
            /\ \A k \in 1..Len(nodes) :
                  /\ pathIdOf(outBodies[outNodeAt[k]]) = nodes[k].path
                  /\ isOpenLine(outBodies[outNodeAt[k]]) = isGroup(nodes[k].v)
                  /\ levelAt(outBodies, outNodeAt[k]) = nodes[k].depth

\* a text was returned for a schema with two tables, in which a nested
\* group with a child is followed by a sibling declared after it
C2_Witness ==
    /\ pc = "done"
    /\ Len(schema) >= 2
    /\ LET nodes == schemaWalk(schema)
       IN  \E i, j \in 1..Len(nodes) :
              /\ i + 1 < j
              /\ isGroup(nodes[i].v) /\ nodes[i].depth = 1
              /\ nodes[i + 1].depth = 2
              /\ nodes[j].depth = 1
              /\ \A m \in (i + 1)..(j - 1) : nodes[m].depth > 1

\* C3 (edge order): the edge lines follow the order of their Reference
\* nodes: by source table in schema order, within a table in pre-order.
C3_EdgeOrder == pc = "done" => outEdges = expectedEdges

\* a text was returned in which a reference nested in an earlier declared
\* sub-object precedes a reference declared after that sub-object
C3_Witness ==
    /\ pc = "done"
    /\ LET refs == referenceNodes(schema)
       IN  \E i \in 1..(Len(refs) - 1) :
              /\ refs[i].depth > refs[i + 1].depth
              /\ refs[i + 1].depth = 1
              /\ outEdges[i] = edgeOf(refs[i])
              /\ outEdges[i] # outEdges[i + 1]

\* the nodes of the walk that stand below node k
subtreeOf(nodes, k) ==
    {m \in (k + 1)..Len(nodes) :
        \A q \in (k + 1)..m : nodes[q].depth > nodes[k].depth}

\* the node that node k (not a table root) is a child of
parentOf(nodes, k) ==
    CHOOSE m \in 1..(k - 1) :
        /\ nodes[m].depth = nodes[k].depth - 1
        /\ \A q \in (m + 1)..(k - 1) : nodes[q].depth >= nodes[k].depth

\* the positions in the walk of the Reference nodes, in order
referenceAt(nodes) ==
    LET at == {k \in 1..Len(nodes) : nodes[k].v.kind = "id"}
    IN  [n \in 1..Cardinality(at) |->
            CHOOSE k \in at : Cardinality({j \in at : j < k}) = n - 1]

\* the name a declared field f is shown under: f? when optional, else f
shownName(n) == IF n.v.isOptional = "optional" THEN n.name \o "?" ELSE n.name

\* C4 (optional suffix): a declared field f is written f? when it is marked
\* optional and f when it is not, the suffix added once: that name is the
\* field's label name and the last segment of its path (the parent's path,
\* a dot, the name), the path of every line below the field starts with
\* the field's path, and so does the source of every edge that starts at
\* or below it.
C4_OptionalSuffix ==
    pc = "done" =>
        LET nodes == schemaWalk(schema)
            lineOf(k) == outBodies[outNodeAt[k]]
            refAt == referenceAt(nodes)
        IN  /\ Len(outNodeAt) = Len(nodes)
            /\ Len(outEdges) = Len(refAt)
            /\ \A k \in 1..Len(nodes) :
                  nodes[k].declared =>
                    LET shown == shownName(nodes[k])
                        own == pathIdOf(lineOf(k))
                    IN  /\ own = pathIdOf(lineOf(parentOf(nodes, k)))
                                    \o "." \o shown
                        /\ IF isGroup(nodes[k].v)
                           THEN labelOf(lineOf(k)) = shown
                           ELSE startsWith(labelOf(lineOf(k)), shown \o ": ")
                        /\ \A m \in subtreeOf(nodes, k) :
                              startsWith(pathIdOf(lineOf(m)), own \o ".")
                        /\ \A j \in 1..Len(refAt) :
                              /\ refAt[j] = k => startsWith(outEdges[j], own \o "-->")
                              /\ refAt[j] \in subtreeOf(nodes, k)
                                    => startsWith(outEdges[j], own \o ".")

\* a text was returned for a schema with an optional reference field and
\* an optional group field that has a reference below it
C4_Witness ==
    /\ pc = "done"
    /\ LET nodes == schemaWalk(schema)
       IN  /\ \E k \in 1..Len(nodes) :
                 /\ nodes[k].declared /\ nodes[k].v.isOptional = "optional"
                 /\ nodes[k].v.kind = "id"
           /\ \E k \in 1..Len(nodes) :
                 /\ nodes[k].declared /\ nodes[k].v.isOptional = "optional"
                 /\ isGroup(nodes[k].v)
                 /\ \E m \in subtreeOf(nodes, k) : nodes[m].v.kind = "id"

\* the table block output line k stands in: the number of table subgraph
\* lines up to it
blockOf(bodies, k) ==
    Cardinality({j \in 1..k : isOpenLine(bodies[j]) /\ levelAt(bodies, j) = 0})

\* C5 (path uniqueness): no two subgraph or leaf lines of one table block
\* of the returned text carry the same path identifier.
C5_PathUniqueness ==
    pc = "done" =>
        \A i, j \in 1..Len(outNodeAt) :
            (/\ i < j
             /\ blockOf(outBodies, outNodeAt[i]) = blockOf(outBodies, outNodeAt[j]))
            => pathIdOf(outBodies[outNodeAt[i]]) # pathIdOf(outBodies[outNodeAt[j]])

\* the lines the loop of applyIndentation has kept so far (the non-empty
\* ones among those it has passed)
linesKept == SelectSeq(SubSeq(lines, 1, pos - 1), LAMBDA l : l # "")

\* the loop has just passed the end line that closes a table block
atBlockEnd ==
    /\ pc = "indent"
    /\ Len(linesKept) > 1
    /\ isEndLine(linesKept[Len(linesKept)])
    /\ levelAt(linesKept, Len(linesKept) + 1) = 0

\* C6 (indentation balance): every table block of the returned text has as
\* many subgraph lines as end lines, and when the scan has passed the last
\* line of a table block the running indentation is back at the table level
\* (2, the value it has before the first table block).
C6_IndentationBalance ==
    /\ atBlockEnd => indents = 2
    /\ pc = "done" =>
          \A t \in 1..Len(schema) :
              Cardinality({k \in 1..Len(outBodies) :
                              isOpenLine(outBodies[k]) /\ blockOf(outBodies, k) = t})
              = Cardinality({k \in 1..Len(outBodies) :
                              isEndLine(outBodies[k]) /\ blockOf(outBodies, k - 1) = t
                                  /\ levelAt(outBodies, k) > 0})

\* C7 (two spaces per level): the flowchart LR line is not indented, a
\* subgraph or leaf line inside k groups has 2 * (k + 1) leading spaces, an
\* end line has the indentation of its subgraph line, and an edge line has
\* 2 leading spaces.
C7_TwoSpacesPerLevel ==
    pc = "done" =>
        \A k \in 1..Len(outLines) :
            LET b == outBodies[k]
                lead == leadOf(outLines[k])
            IN  /\ isDeclLine(b) => lead = 0
                /\ isNodeLine(b) => lead = 2 * (levelAt(outBodies, k) + 1)
                /\ isEndLine(b) => lead = 2 * levelAt(outBodies, k)
                /\ isEdgeLine(b) => lead = 2

\* C8 (layout): the first line of the returned text is exactly
\* flowchart LR and no other line is; every other line is a line of a
\* table block or an edge line, and every edge line comes after every
\* subgraph, leaf and end line.
C8_Layout ==
    pc = "done" =>
        /\ outLines[1] = "flowchart LR"
        /\ \A k \in 2..Len(outLines) :
              LET b == outBodies[k]
              IN  /\ ~isDeclLine(b)
                  /\ isNodeLine(b) \/ isEndLine(b) \/ isEdgeLine(b)
                  /\ isEdgeLine(b) =>
                        \A j \in (k + 1)..Len(outLines) : isEdgeLine(outBodies[j])

\* a text with edge lines was returned for a schema of two tables, the
\* first of which has a reference
C8_Witness ==
    /\ pc = "done"
    /\ Len(schema) >= 2
    /\ Len(outEdges) >= 2
    /\ \E n \in rangeOf(tableWalk(schema[1])) : n.v.kind = "id"

\* C9 (no blank lines): no line of the returned text is empty; a group
\* without children is its subgraph line and, right after it, its end line;
\* the text of a schema with tables and without references ends with an
\* end line.
C9_NoBlankLines ==
    pc = "done" =>
        LET nodes == schemaWalk(schema)
        IN  /\ \A k \in 1..Len(outLines) : outLines[k] # "" /\ outBodies[k] # ""
            /\ Len(outNodeAt) = Len(nodes)
            /\ \A k \in 1..Len(nodes) :
                  (isGroup(nodes[k].v) /\ childrenOf(nodes[k].v) = <<>>)
                  => /\ outNodeAt[k] < Len(outLines)
                     /\ isEndLine(outBodies[outNodeAt[k] + 1])
            /\ (Len(schema) > 0 /\ referenceNodes(schema) = <<>>)
                  => isEndLine(outBodies[Len(outBodies)])

\* a text was returned for a schema without references that has a nested
\* group without children, and the text before indentation had empty lines
C9_Witness ==
    /\ pc = "done"
    /\ referenceNodes(schema) = <<>>
    /\ \E k \in 1..Len(lines) : lines[k] = ""
    /\ \E n \in rangeOf(schemaWalk(schema)) :
          n.depth > 0 /\ isGroup(n.v) /\ childrenOf(n.v) = <<>>

\* the tables whose root is neither an Object nor a Union
unsupportedTables ==
    {i \in 1..Len(schema) : schema[i].validator.kind \notin {"object", "union"}}

\* C10 (unsupported root type): when the root of some table is neither an
\* Object nor a Union, the invocation gets no further than the table pass,
\* returns no text, and ends in an error whose message names such a table
\* together with the kind of its root.
C10_UnsupportedRootType ==
    unsupportedTables # {} =>
        /\ pc \in {"subgraphs", "error"}
        /\ result = ""
        /\ pc = "error" =>
              \E i \in unsupportedTables :
                  endsWith(error, schema[i].tableName \o " has type "
                                      \o schema[i].validator.kind)

\* the invocation ended in an error for a schema whose second table has an
\* array as its root
C10_Witness ==
    /\ pc = "error"
    /\ Len(schema) >= 2
    /\ unsupportedTables = {2}
    /\ schema[2].validator.kind = "array"

----------------------------------------------------------------------------
(* Record types *)

\* the Record nodes of a schema, in walk order (table roots included)
recordNodes(tables) ==
    SelectSeq(schemaWalk(tables), LAMBDA n : n.v.kind = "record")

\* C11 (unsupported field type): when a Record occurs anywhere in the type
\* tree of some table, at the root or nested under objects, unions and
\* arrays, the invocation gets no further than the table pass and returns
\* no text, so that the Record is never drawn as a leaf line.
C11_UnsupportedFieldType ==
    recordNodes(schema) # <<>> =>
        /\ pc \in {"subgraphs", "error"}
        /\ result = ""

\* the tables with an unsupported structure: the root is neither an Object
\* nor a Union, or a Record occurs somewhere in the type tree
offendingTables ==
    {i \in 1..Len(schema) :
        \/ i \in unsupportedTables
        \/ recordNodes(<<schema[i]>>) # <<>>}

\* the first node in pre-order that makes table i offending
firstOffendingNode(i) ==
    LET nodes == tableWalk(schema[i])
        bad == {k \in 1..Len(nodes) :
                   \/ nodes[k].v.kind = "record"
                   \/ k = 1 /\ i \in unsupportedTables}
    IN  nodes[CHOOSE k \in bad : \A j \in bad : k <= j]

\* C12 (fail before emitting): when some table has an unsupported structure
\* the invocation returns no text at all, not even the blocks of the tables
\* before it, and the error it ends in is that of the first offending table
\* in schema order and, within it, of the first offending path in pre-order.
C12_FailBeforeEmitting ==
    offendingTables # {} =>
        LET first == CHOOSE i \in offendingTables :
                         \A j \in offendingTables : i <= j
            node == firstOffendingNode(first)
        IN  /\ pc \in {"subgraphs", "error"}
            /\ result = ""
            /\ pc = "error" =>
                  endsWith(error, node.path \o " has type " \o node.v.kind)

----------------------------------------------------------------------------
(* Repeated invocations *)

\* C13 (determinism): an invocation ends as every earlier invocation on the
\* same schema ended, with the same text or the same error, whatever other
\* schemas were compiled before or in between; and the indentation loop
\* starts from level 0 with no lines, whatever the invocation before left.
C13_Determinism ==
    /\ pc \in {"done", "error"} =>
          \A o \in outcomes : o.schema = schema => o = outcome
    /\ (pc = "indent" /\ pos = 1) => (indents = 0 /\ indentedLines = <<>>)

\* the third invocation returned a text for a schema compiled before, and
\* a different schema was compiled before it as well, one that ended in an
\* error
C13_Witness ==
    /\ pc = "done"
    /\ calls = 3
    /\ \E o \in outcomes : o.schema = schema /\ o.result = result
    /\ \E o \in outcomes : o.schema # schema /\ o.ended = "error"

----------------------------------------------------------------------------
(* The format of node lines *)

\* the kinds of terminal nodes
isTerminal(v) == v.kind \in {"string", "literal", "id"}

\* the label of the terminal node n: its own name, a colon, and the kind,
\* followed by the quoted value of a literal or the quoted target of a
\* Reference
leafLabelOf(n) ==
    IF n.v.kind = "literal" THEN n.seg \o ": literal '" \o n.v.value \o "'"
    ELSE IF n.v.kind = "id" THEN n.seg \o ": id '" \o n.v.tableName \o "'"
    ELSE n.seg \o ": " \o n.v.kind

\* C14 (leaf line format): every terminal node has the line <path>[<label>],
\* the path being the names from the table down to the node joined with
\* dots and the label being <name>: <kind> for a primitive, <name>: literal
\* '<value>' for a literal and <name>: id '<table>' for a Reference, with
\* the node's own name (with its ?, or synthetic).
C14_LeafLineFormat ==
    pc = "done" =>
        LET nodes == schemaWalk(schema)
        IN  /\ Len(outNodeAt) = Len(nodes)
            /\ \A k \in 1..Len(nodes) :
                  isTerminal(nodes[k].v) =>
                      LET n == nodes[k]
                          up == IF n.depth = 0 THEN "" ELSE n.above \o "."
                      IN  outBodies[outNodeAt[k]] =
                              up \o n.seg \o "[" \o leafLabelOf(n) \o "]"

\* a text was returned for a schema with a literal and an optional
\* Reference, and its last node line is the line of the Reference
C14_Witness ==
    /\ pc = "done"
    /\ \E n \in rangeOf(schemaWalk(schema)) : n.v.kind = "literal"
    /\ LET nodes == schemaWalk(schema)
           n == nodes[Len(nodes)]
       IN  /\ n.v.kind = "id" /\ n.v.isOptional = "optional" /\ n.declared
           /\ outBodies[outNodeAt[Len(outNodeAt)]] =
                  n.path \o "[" \o leafLabelOf(n) \o "]"

\* the children of node k in the walk, in order
childrenAt(nodes, k) ==
    LET at == {m \in subtreeOf(nodes, k) : nodes[m].depth = nodes[k].depth + 1}
    IN  [n \in 1..Cardinality(at) |->
            CHOOSE m \in at : Cardinality({j \in at : j < m}) = n - 1]

\* the name of the i-th child (from 1) of a union or of an array
syntheticName(v, i) ==
    IF v.kind = "union" THEN "union." \o numberToString(i - 1) ELSE "array.0"

\* C15 (synthetic child names): a union with n members is a group with n
\* children named union.0 .. union.(n-1) in member order and an array is a
\* group with the one child array.0; such a name is appended to the path of
\* the parent after a dot, the way a declared name is (with the ? of a
\* child marked optional), in the child's subgraph or leaf line and in the
\* source of the child's edge.
C15_SyntheticNames ==
    pc = "done" =>
        LET nodes == schemaWalk(schema)
            refs == referenceAt(nodes)
        IN  /\ Len(outNodeAt) = Len(nodes)
            /\ Len(outEdges) = Len(refs)
            /\ \A k \in 1..Len(nodes) :
                  nodes[k].v.kind \in {"union", "array"} =>
                      LET ch == childrenAt(nodes, k)
                          v == nodes[k].v
                      IN  /\ Len(ch) = IF v.kind = "union" THEN Len(v.members)
                                       ELSE 1
                          /\ \A i \in 1..Len(ch) :
                                pathIdOf(outBodies[outNodeAt[ch[i]]]) =
                                    pathIdOf(outBodies[outNodeAt[k]]) \o "."
                                        \o shownName([nodes[ch[i]] EXCEPT
                                               !.name = syntheticName(v, i)])
            /\ \A n \in 1..Len(refs) :
                  ~nodes[refs[n]].declared =>
                      startsWith(outEdges[n],
                          pathIdOf(outBodies[outNodeAt[refs[n]]]) \o "-->")

\* a text was returned for a schema in which the second member of a union
\* is an array of References, and the edge starts at ...union.1.array.0
C15_Witness ==
    /\ pc = "done"
    /\ \E n \in rangeOf(schemaWalk(schema)) :
          /\ n.v.kind = "id"
          /\ n.name = "array.0"
          /\ endsWith(n.path, ".union.1.array.0")
          /\ edgeOf(n) \in rangeOf(outEdges)

\* the end line that closes the subgraph line at position p of bodies: the
\* first end line after p in front of which the block of p is the innermost
\* open one
closingEnd(bodies, p) ==
    LET at == {q \in (p + 1)..Len(bodies) :
                  /\ isEndLine(bodies[q])
                  /\ levelAt(bodies, q) = levelAt(bodies, p) + 1}
    IN  IF at = {} THEN 0 ELSE CHOOSE q \in at : \A r \in at : q <= r

\* C17 (group line format): every group (table root, object, union, array)
\* has the line subgraph <path>[<label>], the path being the names from the
\* table down to the group joined with dots and the label the group's own
\* name alone (for a table both are the table name); the lines of all nodes
\* below the group follow it, and then comes the one end line that closes
\* it.
C17_GroupLineFormat ==
    pc = "done" =>
        LET nodes == schemaWalk(schema)
        IN  /\ Len(outNodeAt) = Len(nodes)
            /\ \A k \in 1..Len(nodes) :
                  isGroup(nodes[k].v) =>
                      LET n == nodes[k]
                          p == outNodeAt[k]
                          q == closingEnd(outBodies, p)
                          below == subtreeOf(nodes, k)
                      IN  /\ outBodies[p] =
                                "subgraph " \o n.path \o "[" \o n.seg \o "]"
                          /\ n.depth = 0 =>
                                outBodies[p] = "subgraph " \o n.name
                                                   \o "[" \o n.name \o "]"
                          /\ q # 0
                          /\ \A m \in below : p < outNodeAt[m] /\ outNodeAt[m] < q
                          /\ Cardinality({j \in (p + 1)..(q - 1) :
                                             isNodeLine(outBodies[j])})
                                 = Cardinality(below)
                          /\ Cardinality({j \in (p + 1)..(q - 1) :
                                             isEndLine(outBodies[j])})
                                 = Cardinality({m \in below : isGroup(nodes[m].v)})

\* a text was returned for a schema whose table is a union with a member
\* that holds an optional group with children of its own
C17_Witness ==
    /\ pc = "done"
    /\ LET nodes == schemaWalk(schema)
       IN  \E k \in 1..Len(nodes) :
              /\ nodes[k].depth = 2
              /\ isGroup(nodes[k].v)
              /\ nodes[k].v.isOptional = "optional"
              /\ subtreeOf(nodes, k) # {}
              /\ nodes[parentOf(nodes, parentOf(nodes, k))].v.kind = "union"

\* C18 (synthetic children are never optional): the segment of a union
\* member or array element in its path, in its label and in the source of
\* its edge is exactly union.<i> or array.0, without a ?, whatever optional
\* flag the member or element itself carries.
C18_SyntheticNeverOptional ==
    pc = "done" =>
        LET nodes == schemaWalk(schema)
            refs == referenceAt(nodes)
        IN  /\ Len(outNodeAt) = Len(nodes)
            /\ Len(outEdges) = Len(refs)
            /\ \A k \in 1..Len(nodes) :
                  (nodes[k].depth > 0 /\ ~nodes[k].declared) =>
                      LET b == outBodies[outNodeAt[k]]
                          up == pathIdOf(outBodies[outNodeAt[parentOf(nodes, k)]])
                          name == nodes[k].name
                      IN  /\ pathIdOf(b) = up \o "." \o name
                          /\ \/ labelOf(b) = name
                             \/ startsWith(labelOf(b), name \o ": ")
            /\ \A n \in 1..Len(refs) :
                  (~nodes[refs[n]].declared) =>
                      endsWith(outEdges[n],
                          "." \o nodes[refs[n]].name \o "-->"
                              \o nodes[refs[n]].v.tableName)

----------------------------------------------------------------------------
(* The steps of the indentation counter *)

\* C19 (indent counter steps): a step of the loop of applyIndentation
\* raises the counter by 2 only at the flowchart declaration and at a
\* subgraph line, lowers it by 2 only at a line that is exactly end, and
\* leaves it as it is at every leaf line and edge line, whatever names they
\* carry (also names that begin with end, subgraph or flowchart).
C19_IndentCounterSteps ==
    [][(pc = "indent" /\ pos <= Len(lines) /\ lines[pos] # "") =>
          LET line == lines[pos]
          IN  /\ indents' = indents + 2 => (isDeclLine(line) \/ isOpenLine(line))
              /\ indents' = indents - 2 => isEndLine(line)
              /\ (isLeafLine(line) \/ isEdgeLine(line)) => indents' = indents
      ]_vars

----------------------------------------------------------------------------
(* Reference targets *)

\* the names of the tables the schema declares
declaredNames == {schema[i].tableName : i \in 1..Len(schema)}

\* the Reference nodes whose target is not a declared table, and those
\* whose target is the table they stand in
danglingRefs == {n \in rangeOf(referenceNodes(schema)) :
                    n.v.tableName \notin declaredNames}
selfRefs ==
    UNION {{n \in rangeOf(referenceNodes(<<schema[i]>>)) :
               n.v.tableName = schema[i].tableName} : i \in 1..Len(schema)}

\* C20 (reference targets are not validated): a Reference to a table the
\* schema does not declare, or to its own table, has its leaf line and its
\* edge line in the returned text like any other Reference, and the
\* invocation on a schema with such a Reference (and with object or union
\* roots) does not fail.
C20_TargetsNotValidated ==
    /\ pc = "done" =>
          \A n \in danglingRefs \cup selfRefs :
              /\ \E k \in 1..Len(outBodies) :
                    outBodies[k] = n.path \o "[" \o n.seg \o ": id '"
                                       \o n.v.tableName \o "']"
              /\ \E k \in 1..Len(outBodies) :
                    outBodies[k] = n.path \o "-->" \o n.v.tableName
    /\ (unsupportedTables = {} /\ danglingRefs \cup selfRefs # {}) =>
          pc # "error"

----------------------------------------------------------------------------
(* The subgraph pass against the link pass *)

\* the leaf line is that of a Reference: its label is <name>: id '<table>'
isIdLeafLine(b) ==
    isLeafLine(b) /\ indexOfStr(labelOf(b), ": id '") # 0 /\ endsWith(b, "']")

\* the table quoted in the label of the Reference leaf line b
quotedTableOf(b) ==
    LET label == labelOf(b)
        at == indexOfStr(label, ": id '")
    IN  SubSeq(label, at + Len(": id '"), Len(label) - 1)

\* the Reference leaf lines of the returned text, in order
outIdLeaves == selectLines(outBodies, isIdLeafLine)

\* C21 (the two traversals agree): in the returned text the sources of the
\* edge lines, written by the link pass, are the paths of the Reference leaf
\* lines, written by the subgraph pass, in the same order and letter for
\* letter, and the target of each edge is the table quoted in the label of
\* that leaf line.
C21_TraversalsAgree ==
    pc = "done" =>
        /\ Len(outEdges) = Len(outIdLeaves)
        /\ \A n \in 1..Len(outEdges) :
              outEdges[n] = pathIdOf(outIdLeaves[n]) \o "-->"
                                \o quotedTableOf(outIdLeaves[n])

\* a text was returned with at least two edges, one of them from the
\* element of an array, and not all of them to the same table
C21_Witness ==
    /\ pc = "done"
    /\ Len(outEdges) >= 2
    /\ \E n \in 1..Len(outEdges) : indexOfStr(outEdges[n], ".array.0-->") # 0
    /\ \E m, n \in 1..Len(outIdLeaves) :
          quotedTableOf(outIdLeaves[m]) # quotedTableOf(outIdLeaves[n])

----------------------------------------------------------------------------
(* The sign of the indentation counter *)

\* C22 (the indent counter is never negative): for a schema whose table
\* roots are all objects or unions, whatever the names of its tables and
\* fields, the counter of applyIndentation is at no point of the scan below
\* 0, so that the invocation never ends in an error and returns its text.
C22_IndentNeverNegative ==
    unsupportedTables = {} =>
        /\ indents >= 0
        /\ pc # "error"

====
